---- MODULE Spec2Model ----
(***************************************************************************)
(* Model of daikinthing.py: Daikin A/C units mirrored as WebThings.        *)
(*                                                                         *)
(* run_server() constructs the Things (each constructor looks up the       *)
(* device identity and creates an asyncio task running update_level()),    *)
(* starts the server (which runs the event loop), and on KeyboardInterrupt *)
(* cancels and joins every task, then stops the server.                    *)
(*                                                                         *)
(* The fleet of the model is the two Things that live at 192.168.13.30:    *)
(* the office indoor unit and the condenser.  kitchen and bedroom are      *)
(* further DaikinAC instances at their own addresses; they share no state  *)
(* with the others.                                                        *)
(*                                                                         *)
(* Python values are records [ty, n]: ty is the Python type, n the number  *)
(* the value denotes.  A str made of decimal digits has n >= 0, any other  *)
(* str (the device's "temperature unavailable" sentinel) has n = -1.       *)
(***************************************************************************)
EXTENDS Integers, Sequences, FiniteSets, TLC

VARIABLES
    pc,         \* position of run_server()
    idx,        \* index into Fleet of the Thing being constructed / cancelled
    server,     \* WebThingServer: "none", "created", "started", "stopped"
    task,       \* sensor_update_task of each Thing
    cancelReq,  \* tasks on which cancel() returned True, CancelledError pending
    exc,        \* the exception that escaped run_server(), "none" if none
    dev,        \* the appliance behind each indoor unit: power, mode, stemp
    mirror,     \* the Value objects of each Thing (Value.last_value)
    pending,    \* history: the mode last requested by set_tmode with no write since,
                \* and the power the appliance had when it was requested
    last        \* history: the operation that ran last

vars == <<pc, idx, server, task, cancelReq, exc, dev, mirror, pending, last>>

----------------------------------------------------------------------------
(* Python values *)

PyFloat(k) == [ty |-> "float", n |-> k]
PyInt(k)   == [ty |-> "int", n |-> k]
PyBool(b)  == [ty |-> "bool", n |-> IF b THEN 1 ELSE 0]
PyDigits(k) == [ty |-> "str", n |-> k]
PySentinel == [ty |-> "str", n |-> -1]
PyNone     == [ty |-> "none", n |-> 0]
ReadError  == [ty |-> "ReadError", n |-> 0]

\* Python ==: bool, int and float compare by number, everything else by type and content
PyEq(a, b) ==
    IF a.ty \in {"bool", "int", "float"} /\ b.ty \in {"bool", "int", "float"}
    THEN a.n = b.n
    ELSE a = b

\* what a read of the inside temperature can return: a number, a string of
\* digits, a non-numeric string
RawTemps == {PyFloat(21), PyDigits(22), PySentinel}

\* the target temperature the appliance holds and the outside temperature it
\* reports: a number or a non-numeric string
TargetTemps == {PyFloat(21), PySentinel}
OutsideTemps == {PyFloat(21), PySentinel}

\* the temperatures a consumer writes
WriteTemps == {PyFloat(21)}

\* mode codes the appliance can report
ModeCodes == {0, 1, 2, 3, 4, 6}

\* values a consumer can write into the mode property ("eco" is outside the enum)
ModeNames == {"off", "auto", "cool", "heat", "dehumid", "fan"}
ModeInputs == ModeNames \cup {"eco"}

----------------------------------------------------------------------------
(* The fleet *)

Fleet == <<"office", "condenser">>
IndoorUnits == {"office"}
Condensers == {"condenser"}
Things == IndoorUnits \cup Condensers

NoRequest == [target |-> "none", power |-> 0]

\* history of a polling iteration: what its reads returned.  in_temp is the
\* inside (or, for the condenser, outside) temperature, tgt_temp the target
\* temperature (None when that read raised), fail the later read that raised
NoReads == [in_temp |-> PyNone, tgt_temp |-> PyNone, mode |-> 0, power |-> 0,
            fail |-> "none"]

\* history of the operation that ran last: its name, its Thing, its argument,
\* the device commands it attempted, the reads of a polling iteration, and
\* for a write callback whether the device write failed and whether the
\* callback raised to its caller
NoOp == [op |-> "none", t |-> "none", arg |-> "none", cmds |-> <<>>,
         reads |-> NoReads, failed |-> FALSE, raised |-> FALSE]
Op(o, t, a, c) == [NoOp EXCEPT !.op = o, !.t = t, !.arg = a, !.cmds = c]
OpPoll(o, t, r) == [NoOp EXCEPT !.op = o, !.t = t, !.reads = r]
OpWrite(o, t, a, c, f, r) ==
    [NoOp EXCEPT !.op = o, !.t = t, !.arg = a, !.cmds = c, !.failed = f, !.raised = r]

\* DaikinAC.__init__ / DaikinCondenser.__init__: the initial Value objects
InitialMirror(t) ==
    IF t \in IndoorUnits
    THEN [room_temperature |-> PyFloat(0), target_temperature |-> PyFloat(0),
          thermo_mode |-> "off", power |-> PyBool(FALSE)]
    ELSE [outside_temperature |-> PyFloat(0)]

Init ==
    /\ pc = "construct"
    /\ idx = 1
    /\ server = "none"
    /\ task = [t \in Things |-> "none"]
    /\ cancelReq = {}
    /\ exc = "none"
    /\ dev \in [IndoorUnits -> [power : {0, 1}, mode : ModeCodes, stemp : TargetTemps]]
    /\ mirror = [t \in Things |-> InitialMirror(t)]
    /\ pending = [t \in IndoorUnits |-> NoRequest]
    /\ last = NoOp

----------------------------------------------------------------------------
(* The WebThing Value object *)

\* Value.notify_of_external_update(value): None and a value equal to the
\* current one are dropped, anything else becomes the current value
NotifyOfExternalUpdate(last_value, value) ==
    IF value.ty # "none" /\ ~PyEq(value, last_value) THEN value ELSE last_value

----------------------------------------------------------------------------
(* update_level: one iteration of the polling loop *)

\* lines 116-127: the if/elif chain that computes tmode
DecodeTmode_AutoForHeat(power, mode) ==
    IF power = 0 THEN "off"
    ELSE IF mode = 2 THEN "dehumid"
    ELSE IF mode = 3 THEN "cool"
    ELSE IF mode = 6 THEN "fan"
    ELSE "auto"

DecodeTmode_IgnoresPower(power, mode) ==
    IF mode = 2 THEN "dehumid"
    ELSE IF mode = 3 THEN "cool"
    ELSE IF mode = 4 THEN "heat"
    ELSE IF mode = 6 THEN "fan"
    ELSE "auto"

DecodeTmode(power, mode) ==
    IF power = 0 THEN "off"
    ELSE IF mode = 2 THEN "dehumid"
    ELSE IF mode = 3 THEN "cool"
    ELSE IF mode = 4 THEN "heat"
    ELSE IF mode = 6 THEN "fan"
    ELSE "auto"

\* lines 132 and 134: isinstance(v, (int, float)) or (isinstance(v, str) and v.isnumeric())
IsNumeric(v) ==
    \/ v.ty \in {"int", "float"}
    \/ v.ty = "str" /\ v.n >= 0

\* line 137 with the Value's own content in place of the power just read
ACNotify_StalePower(m, in_temp, tgt_temp, tmode, power) ==
    [room_temperature |->
        IF IsNumeric(in_temp)
        THEN NotifyOfExternalUpdate(m.room_temperature, in_temp)
        ELSE m.room_temperature,
     target_temperature |->
        IF IsNumeric(tgt_temp)
        THEN NotifyOfExternalUpdate(m.target_temperature, tgt_temp)
        ELSE m.target_temperature,
     thermo_mode |-> tmode,
     power |-> m.power]

\* lines 132-137: the notifications of an iteration whose reads all returned
ACNotify(m, in_temp, tgt_temp, tmode, power) ==
    [room_temperature |->
        IF IsNumeric(in_temp)
        THEN NotifyOfExternalUpdate(m.room_temperature, in_temp)
        ELSE m.room_temperature,
     target_temperature |->
        IF IsNumeric(tgt_temp)
        THEN NotifyOfExternalUpdate(m.target_temperature, tgt_temp)
        ELSE m.target_temperature,
     thermo_mode |-> tmode,
     power |-> NotifyOfExternalUpdate(m.power, PyInt(power))]

\* an iteration in which a read outside the inner try raised: the exception
\* leaves the while loop before line 132, nothing is notified
ACAbort_NotifyEarly(m, in_temp) ==
    IF in_temp # ReadError /\ IsNumeric(in_temp)
    THEN [m EXCEPT !.room_temperature = NotifyOfExternalUpdate(@, in_temp)]
    ELSE m

ACAbort(m, in_temp) == m

\* lines 108-111: the target temperature read inside its own try; the bare
\* except turns a failure into None
TargetRead_Propagates(stemp, tgt_ok) == IF tgt_ok THEN stemp ELSE ReadError

TargetRead(stemp, tgt_ok) == IF tgt_ok THEN stemp ELSE PyNone

\* The reads of one DaikinAC iteration.  in_temp is what line 106 returns,
\* tgt_ok whether the read of line 109 returns (its failure is caught by the
\* bare except), fail names the later read that raises, if any: "mode" (line
\* 113, or its repetition as an argument of logging.debug) or "power" (114,
\* likewise).
DaikinAC_update_level(t) ==
    /\ pc \in {"serving", "join"}
    /\ task[t] = "sleeping"
    /\ t \notin cancelReq
    /\ \E in_temp \in RawTemps \cup {ReadError}, tgt_ok \in BOOLEAN,
          fail \in {"none", "mode", "power"} :
        LET tgt_temp == TargetRead(dev[t].stemp, tgt_ok)
            mode  == dev[t].mode
            power == dev[t].power
            tmode == DecodeTmode(power, mode)
            reads == [in_temp |-> in_temp,
                      tgt_temp |-> IF tgt_ok THEN dev[t].stemp ELSE PyNone,
                      mode |-> mode, power |-> power, fail |-> fail]
        IN  IF in_temp = ReadError \/ tgt_temp = ReadError \/ fail # "none"
            THEN /\ task' = [task EXCEPT ![t] = "failed"]
                 /\ mirror' = [mirror EXCEPT ![t] = ACAbort(@, in_temp)]
                 /\ last' = OpPoll("poll_failed", t, reads)
            ELSE /\ task' = task
                 /\ mirror' = [mirror EXCEPT
                        ![t] = ACNotify(@, in_temp, tgt_temp, tmode, power)]
                 /\ last' = OpPoll("poll", t, reads)
    /\ UNCHANGED <<pc, idx, server, cancelReq, exc, dev, pending>>

\* ACNotify cut short: only the first k of the four statements of lines
\* 132-137 have run
ACNotifyUpTo(m, in_temp, tgt_temp, tmode, power, k) ==
    LET full == ACNotify(m, in_temp, tgt_temp, tmode, power)
    IN  [room_temperature |->
            IF k >= 1 THEN full.room_temperature ELSE m.room_temperature,
         target_temperature |->
            IF k >= 2 THEN full.target_temperature ELSE m.target_temperature,
         thermo_mode |-> IF k >= 3 THEN full.thermo_mode ELSE m.thermo_mode,
         power |-> IF k >= 4 THEN full.power ELSE m.power]

\* Ctrl-C while an iteration of the polling loop runs.  KeyboardInterrupt is
\* raised at the statement being executed, anywhere between the reads of
\* line 105 and the last notification; k notifications have been made.  It
\* is not a CancelledError: it ends the task and leaves the event loop and
\* server.start(), and run_server enters its except block.  (Raised inside
\* the try of line 108 it is swallowed by the bare except instead: that
\* iteration is an ordinary one whose target read failed.)
DaikinAC_update_level_interrupted(t) ==
    /\ pc = "serving"
    /\ task[t] = "sleeping"
    /\ \E in_temp \in RawTemps, tgt_ok \in BOOLEAN, k \in 0..4 :
        LET tgt_temp == TargetRead(dev[t].stemp, tgt_ok)
            mode  == dev[t].mode
            power == dev[t].power
            tmode == DecodeTmode(power, mode)
            reads == [in_temp |-> in_temp,
                      tgt_temp |-> IF tgt_ok THEN dev[t].stemp ELSE PyNone,
                      mode |-> mode, power |-> power, fail |-> "none"]
        IN  /\ tgt_temp # ReadError
            /\ mirror' = [mirror EXCEPT
                   ![t] = ACNotifyUpTo(@, in_temp, tgt_temp, tmode, power, k)]
            /\ last' = OpPoll("poll_interrupted", t, reads)
    /\ task' = [task EXCEPT ![t] = "interrupted"]
    /\ pc' = "cancel"
    /\ idx' = 1
    /\ UNCHANGED <<server, cancelReq, exc, dev, pending>>

\* line 212: the condenser notifies whatever was read
CondenserNotify(m, out_temp) ==
    [outside_temperature |-> NotifyOfExternalUpdate(m.outside_temperature, out_temp)]

DaikinCondenser_update_level(t) ==
    /\ pc \in {"serving", "join"}
    /\ task[t] = "sleeping"
    /\ t \notin cancelReq
    /\ \E out_temp \in OutsideTemps \cup {ReadError} :
        IF out_temp = ReadError
        THEN /\ task' = [task EXCEPT ![t] = "failed"]
             /\ mirror' = mirror
             /\ last' = OpPoll("poll_failed", t, [NoReads EXCEPT !.in_temp = out_temp])
        ELSE /\ task' = task
             /\ mirror' = [mirror EXCEPT ![t] = CondenserNotify(@, out_temp)]
             /\ last' = OpPoll("poll", t, [NoReads EXCEPT !.in_temp = out_temp])
    /\ UNCHANGED <<pc, idx, server, cancelReq, exc, dev, pending>>

\* Ctrl-C while an iteration of the condenser's loop runs, before or after
\* the notification of line 212
DaikinCondenser_update_level_interrupted(t) ==
    /\ pc = "serving"
    /\ task[t] = "sleeping"
    /\ \E out_temp \in OutsideTemps, notified \in BOOLEAN :
        /\ mirror' = [mirror EXCEPT
               ![t] = IF notified THEN CondenserNotify(@, out_temp) ELSE @]
        /\ last' = OpPoll("poll_interrupted", t, [NoReads EXCEPT !.in_temp = out_temp])
    /\ task' = [task EXCEPT ![t] = "interrupted"]
    /\ pc' = "cancel"
    /\ idx' = 1
    /\ UNCHANGED <<server, cancelReq, exc, dev, pending>>

----------------------------------------------------------------------------
(* The write callbacks.  The server calls them while it handles a consumer's
   request, on the event loop, between two iterations of the polling loops. *)

\* the appliance after a sequence of commands <<field, value>>
RECURSIVE Apply(_, _)
Apply(d, cmds) ==
    IF cmds = <<>> THEN d
    ELSE Apply([d EXCEPT ![cmds[1][1]] = cmds[1][2]], Tail(cmds))

\* lines 152-164: the commands set_tmode issues
TmodeCommands_PowerOn(new_tmode) ==
    IF new_tmode = "off" THEN << <<"power", 0>> >>
    ELSE IF new_tmode = "dehumid" THEN << <<"power", 1>>, <<"mode", 2>> >>
    ELSE IF new_tmode = "cool" THEN << <<"power", 1>>, <<"mode", 3>> >>
    ELSE IF new_tmode = "heat" THEN << <<"power", 1>>, <<"mode", 4>> >>
    ELSE IF new_tmode = "fan" THEN << <<"power", 1>>, <<"mode", 6>> >>
    ELSE << <<"power", 1>>, <<"mode", 1>> >>

TmodeCommands_FanAsAuto(new_tmode) ==
    IF new_tmode = "off" THEN << <<"power", 0>> >>
    ELSE IF new_tmode = "dehumid" THEN << <<"mode", 2>> >>
    ELSE IF new_tmode = "cool" THEN << <<"mode", 3>> >>
    ELSE IF new_tmode = "heat" THEN << <<"mode", 4>> >>
    ELSE << <<"mode", 1>> >>

TmodeCommands(new_tmode) ==
    IF new_tmode = "off" THEN << <<"power", 0>> >>
    ELSE IF new_tmode = "dehumid" THEN << <<"mode", 2>> >>
    ELSE IF new_tmode = "cool" THEN << <<"mode", 3>> >>
    ELSE IF new_tmode = "heat" THEN << <<"mode", 4>> >>
    ELSE IF new_tmode = "fan" THEN << <<"mode", 6>> >>
    ELSE << <<"mode", 1>> >>

\* The callbacks have no try block.  A device write that fails with a
\* WriteError has been attempted once and its exception leaves the callback.
Attempts(cmds, write_ok) == cmds

CallbackRaises_Swallowed(write_ok) == FALSE

CallbackRaises(write_ok) == ~write_ok

\* what a write callback does to the Value objects of its Thing: nothing
MirrorAfterWrite_Echo(m, field, value) == [m EXCEPT ![field] = value]

MirrorAfterWrite(m, field, value) == m

set_tgt_temp(t) ==
    /\ pc = "serving"
    /\ task[t] # "none"
    /\ \E new_temp \in WriteTemps, write_ok \in BOOLEAN :
        LET cmds == << <<"stemp", new_temp>> >> IN
        /\ dev' = [dev EXCEPT ![t] = IF write_ok THEN Apply(@, cmds) ELSE @]
        /\ mirror' = [mirror EXCEPT
              ![t] = MirrorAfterWrite(@, "target_temperature", new_temp)]
        /\ last' = OpWrite("set_tgt_temp", t, "none", Attempts(cmds, write_ok),
                            ~write_ok, CallbackRaises(write_ok))
    /\ pending' = [pending EXCEPT ![t] = NoRequest]
    /\ UNCHANGED <<pc, idx, server, task, cancelReq, exc>>

set_power(t) ==
    /\ pc = "serving"
    /\ task[t] # "none"
    /\ \E power_state \in BOOLEAN, write_ok \in BOOLEAN :
        LET cmds == << <<"power", IF power_state THEN 1 ELSE 0>> >> IN
        /\ dev' = [dev EXCEPT ![t] = IF write_ok THEN Apply(@, cmds) ELSE @]
        /\ mirror' = [mirror EXCEPT
              ![t] = MirrorAfterWrite(@, "power", PyBool(power_state))]
        /\ last' = OpWrite("set_power", t, "none", Attempts(cmds, write_ok),
                            ~write_ok, CallbackRaises(write_ok))
    /\ pending' = [pending EXCEPT ![t] = NoRequest]
    /\ UNCHANGED <<pc, idx, server, task, cancelReq, exc>>

set_tmode(t) ==
    /\ pc = "serving"
    /\ task[t] # "none"
    /\ \E new_tmode \in ModeInputs, write_ok \in BOOLEAN :
        LET cmds == TmodeCommands(new_tmode) IN
        /\ dev' = [dev EXCEPT ![t] = IF write_ok THEN Apply(@, cmds) ELSE @]
        /\ mirror' = [mirror EXCEPT
              ![t] = MirrorAfterWrite(@, "thermo_mode", new_tmode)]
        /\ last' = OpWrite("set_tmode", t, new_tmode, Attempts(cmds, write_ok),
                            ~write_ok, CallbackRaises(write_ok))
        /\ pending' = [pending EXCEPT
              ![t] = IF write_ok
                     THEN [target |-> new_tmode, power |-> dev[t].power]
                     ELSE NoRequest]
    /\ UNCHANGED <<pc, idx, server, task, cancelReq, exc>>

----------------------------------------------------------------------------
(* run_server *)

\* lines 226-229: the next Thing of the fleet is constructed.  The identity
\* lookup (daikinac.type, daikinac.name) either answers, and the constructor
\* goes on to create the task, or raises; nothing in run_server catches it.
Construct ==
    /\ pc = "construct"
    /\ idx <= Len(Fleet)
    /\ \E identity_ok \in BOOLEAN :
        IF identity_ok
        THEN /\ task' = [task EXCEPT ![Fleet[idx]] = "created"]
             /\ idx' = idx + 1
             /\ last' = Op("construct", Fleet[idx], "none", <<>>)
             /\ UNCHANGED <<pc, exc>>
        ELSE /\ pc' = "crashed"
             /\ exc' = "IdentityError"
             /\ last' = Op("construct_failed", Fleet[idx], "none", <<>>)
             /\ UNCHANGED <<task, idx>>
    /\ UNCHANGED <<server, cancelReq, dev, mirror, pending>>

\* lines 233-240: WebThingServer(...) and the call of server.start()
ServerStart ==
    /\ pc = "construct"
    /\ idx > Len(Fleet)
    /\ pc' = "starting"
    /\ server' = "created"
    /\ last' = Op("server_start", "none", "none", <<>>)
    /\ UNCHANGED <<idx, task, cancelReq, exc, dev, mirror, pending>>

\* the first step of every task the event loop has not run yet: update_level
\* enters its try block and suspends in sleep()
FirstSteps(tk) == [t \in Things |-> IF tk[t] = "created" THEN "sleeping" ELSE tk[t]]

\* server.start() reaches the event loop, which runs until interrupted
LoopRuns ==
    /\ pc = "starting"
    /\ pc' = "serving"
    /\ server' = "started"
    /\ task' = FirstSteps(task)
    /\ last' = Op("loop_runs", "none", "none", <<>>)
    /\ UNCHANGED <<idx, cancelReq, exc, dev, mirror, pending>>

\* line 241: KeyboardInterrupt is raised out of server.start()
KeyboardInterrupt ==
    /\ pc \in {"starting", "serving"}
    /\ pc' = "cancel"
    /\ idx' = 1
    /\ last' = Op("interrupt", "none", "none", <<>>)
    /\ UNCHANGED <<server, task, cancelReq, exc, dev, mirror, pending>>

\* task.cancel() returns False and does nothing for a task that is done
CancelRequested_EvenIfDone(st) == TRUE

CancelRequested(st) == st \in {"created", "sleeping"}

\* line 167: task.cancel() requests cancellation unless the task is done
task_cancel ==
    /\ pc = "cancel"
    /\ idx <= Len(Fleet)
    /\ cancelReq' = IF CancelRequested(task[Fleet[idx]])
                    THEN cancelReq \cup {Fleet[idx]}
                    ELSE cancelReq
    /\ pc' = "join"
    /\ last' = Op("cancel", Fleet[idx], "none", <<>>)
    /\ UNCHANGED <<idx, server, task, exc, dev, mirror, pending>>

\* The task after the event loop has delivered a requested cancellation.
\* A task suspended in sleep() gets CancelledError inside its try block and
\* returns; a task that never ran gets it before the try block and ends
\* cancelled.
Delivered_AlwaysCaught(st) == "stopped"

Delivered_CaughtInsideLoop(st) == IF st = "sleeping" THEN "sleeping" ELSE "cancelled"

Delivered(st) == IF st = "sleeping" THEN "stopped" ELSE "cancelled"

\* what run_until_complete(task) raises once the task is done: the result of
\* a task that returned is None, a failed task re-raises its exception, a
\* cancelled task raises CancelledError
JoinRaises(st) ==
    IF st = "failed" THEN "ReadError"
    ELSE IF st = "cancelled" THEN "CancelledError"
    ELSE "none"

\* line 168: get_event_loop().run_until_complete(self.sensor_update_task).
\* For a task ended by KeyboardInterrupt the event loop is not stopped when
\* the task is found done: the call runs the loop on and does not return.
run_until_complete ==
    /\ pc = "join"
    /\ task[Fleet[idx]] # "interrupted"
    /\ LET t  == Fleet[idx]
           st == IF t \in cancelReq THEN Delivered(task[t]) ELSE task[t]
       IN  /\ task' = [FirstSteps(task) EXCEPT ![t] = st]
           /\ cancelReq' = cancelReq \ {t}
           /\ IF JoinRaises(st) = "none"
              THEN /\ pc' = IF idx = Len(Fleet) THEN "stop" ELSE "cancel"
                   /\ idx' = idx + 1
                   /\ exc' = exc
              ELSE /\ pc' = "aborted"
                   /\ exc' = JoinRaises(st)
                   /\ idx' = idx
           /\ last' = Op("join", t, "none", <<>>)
    /\ UNCHANGED <<server, dev, mirror, pending>>

\* line 248: server.stop()
ServerStop ==
    /\ pc = "stop"
    /\ pc' = "done"
    /\ server' = "stopped"
    /\ last' = Op("server_stop", "none", "none", <<>>)
    /\ UNCHANGED <<idx, task, cancelReq, exc, dev, mirror, pending>>

----------------------------------------------------------------------------

Next ==
    \/ Construct
    \/ ServerStart
    \/ LoopRuns
    \/ KeyboardInterrupt
    \/ task_cancel
    \/ run_until_complete
    \/ ServerStop
    \/ \E t \in IndoorUnits : DaikinAC_update_level(t)
    \/ \E t \in Condensers : DaikinCondenser_update_level(t)
    \/ \E t \in IndoorUnits : DaikinAC_update_level_interrupted(t)
    \/ \E t \in Condensers : DaikinCondenser_update_level_interrupted(t)
    \/ \E t \in IndoorUnits : set_tgt_temp(t)
    \/ \E t \in IndoorUnits : set_power(t)
    \/ \E t \in IndoorUnits : set_tmode(t)

Spec == Init /\ [][Next]_vars

\* lines 242-249 run once more after they have completed: every Thing is
\* cancelled and joined again, then the server is stopped again (stopping
\* the stopped server is taken to leave it stopped)
ShutdownAgain ==
    /\ pc = "done"
    /\ pc' = "cancel"
    /\ idx' = 1
    /\ last' = Op("shutdown_again", "none", "none", <<>>)
    /\ UNCHANGED <<server, task, cancelReq, exc, dev, mirror, pending>>

NextTwice == Next \/ ShutdownAgain

SpecTwice == Init /\ [][NextTwice]_vars

TypeOK ==
    /\ pc \in {"construct", "crashed", "starting", "serving", "cancel", "join",
               "stop", "done", "aborted"}
    /\ task \in [Things -> {"none", "created", "sleeping", "stopped", "failed", "cancelled",
                         "interrupted"}]
    /\ cancelReq \subseteq Things
    /\ server \in {"none", "created", "started", "stopped"}

----------------------------------------------------------------------------
(* Properties *)

\* the iteration of t's polling loop that ran last
Polled(t) == last.op = "poll" /\ last.t = t
PollFailed(t) == last.op = "poll_failed" /\ last.t = t

\* C1: a polling loop whose iteration met a failed read is still running,
\* suspended in the sleep that precedes its next iteration
C1_LoopSurvivesReadFailure ==
    \A t \in Things : PollFailed(t) => task[t] = "sleeping"

\* C2: an iteration in which a required read fails notifies no property:
\* every Value of that Thing is after the iteration what it was before
C2_FailedPollNotifiesNothing ==
    [][\A t \in Things :
          (last'.op = "poll_failed" /\ last'.t = t) => mirror'[t] = mirror[t]]_vars

\* a second iteration failed after a first one had notified
C2_Witness ==
    \E t \in IndoorUnits : PollFailed(t) /\ mirror[t] # InitialMirror(t)

\* C3: no temperature property of either role ever holds a non-numeric string
C3_TemperaturesNumeric ==
    /\ \A t \in IndoorUnits :
          /\ mirror[t].room_temperature # PySentinel
          /\ mirror[t].target_temperature # PySentinel
    /\ \A t \in Condensers : mirror[t].outside_temperature # PySentinel

\* C4: when a loop of the fleet has failed reads, the shutdown sequence is
\* not aborted by an exception
C4_ShutdownCompletes ==
    (\E t \in Things : task[t] = "failed") => pc # "aborted"

\* C5: cancel_update_level_task returns normally, no exception escapes it
C5_CancelAndJoinReturns ==
    last.op = "join" => (exc = "none" /\ task[last.t] = "stopped")

\* C6: after a failed identity lookup run_server goes on: it has not ended
\* with the exception
C6_IdentityFailureIsLocal ==
    last.op = "construct_failed" => (pc # "crashed" /\ exc = "none")

\* C7: the mode an iteration notifies is off when the power read is 0,
\* otherwise dehumid, cool, heat, fan for mode codes 2, 3, 4, 6 and auto for
\* every other mode code
C7_ModeDecoded ==
    \A t \in IndoorUnits :
        Polled(t) =>
            mirror[t].thermo_mode =
                CASE dev[t].power = 0 -> "off"
                  [] dev[t].power # 0 /\ dev[t].mode = 2 -> "dehumid"
                  [] dev[t].power # 0 /\ dev[t].mode = 3 -> "cool"
                  [] dev[t].power # 0 /\ dev[t].mode = 4 -> "heat"
                  [] dev[t].power # 0 /\ dev[t].mode = 6 -> "fan"
                  [] OTHER -> "auto"

\* an iteration read an unrecognized mode code from a running appliance
C7_Witness ==
    \E t \in IndoorUnits :
        /\ Polled(t)
        /\ dev[t].power = 1
        /\ dev[t].mode = 0
        /\ mirror[t].thermo_mode = "auto"

\* the single command set_tmode is to issue for a value
C8_Expected(v) ==
    CASE v = "off" -> <<"power", 0>>
      [] v = "dehumid" -> <<"mode", 2>>
      [] v = "cool" -> <<"mode", 3>>
      [] v = "heat" -> <<"mode", 4>>
      [] v = "fan" -> <<"mode", 6>>
      [] OTHER -> <<"mode", 1>>

\* C8: set_tmode issues exactly one command, to power (0) for off and to
\* mode otherwise, and the appliance's other fields are as before
C8_SetModeOneWrite ==
    [][\A t \in IndoorUnits :
          (last'.op = "set_tmode" /\ last'.t = t) =>
              /\ last'.cmds = <<C8_Expected(last'.arg)>>
              /\ ~last'.failed =>
                    dev'[t] = [dev[t] EXCEPT
                        ![C8_Expected(last'.arg)[1]] = C8_Expected(last'.arg)[2]]
              /\ last'.arg = "off" => dev'[t].mode = dev[t].mode
              /\ last'.arg # "off" => dev'[t].power = dev[t].power]_vars

\* a value outside the enumeration was written to an appliance that is off
C8_Witness ==
    \E t \in IndoorUnits :
        /\ last.op = "set_tmode" /\ last.t = t /\ ~last.failed
        /\ last.arg = "eco"
        /\ dev[t].mode = 1
        /\ dev[t].power = 0

\* C9 as stated: after set_tmode(target) and no other write, the next
\* iteration notifies target, whatever the appliance's state was
C9_RoundTripAnyState ==
    \A t \in IndoorUnits :
        (Polled(t) /\ pending[t].target \in ModeNames) =>
            mirror[t].thermo_mode = pending[t].target

\* C9 amended: the same, for target off from any state and for the other
\* targets when the appliance was powered on
C9_RoundTripPoweredOn ==
    \A t \in IndoorUnits :
        (/\ Polled(t)
         /\ pending[t].target \in ModeNames
         /\ (pending[t].target = "off" \/ pending[t].power = 1)) =>
            mirror[t].thermo_mode = pending[t].target

\* fan was requested of a running appliance and the next iteration notified it
C9_Witness ==
    \E t \in IndoorUnits :
        /\ Polled(t)
        /\ pending[t] = [target |-> "fan", power |-> 1]
        /\ mirror[t].thermo_mode = "fan"

WriteOps == {"set_tgt_temp", "set_power", "set_tmode"}

\* C11: a write callback whose device write fails raises to its caller, has
\* attempted the write once, and leaves every polling loop and run_server
\* where they were
C11_WriteErrorSurfaces ==
    [][(last'.op \in WriteOps /\ last'.failed) =>
          /\ last'.raised
          /\ Len(last'.cmds) = 1
          /\ task' = task
          /\ cancelReq' = cancelReq
          /\ pc' = pc]_vars

\* set_tmode("cool") failed at the device while the Thing's loop sleeps
C11_Witness ==
    \E t \in IndoorUnits :
        /\ last.op = "set_tmode" /\ last.t = t /\ last.arg = "cool"
        /\ last.failed
        /\ task[t] = "sleeping"

\* C12: the server is stopped only when every loop has stopped, and when
\* the shutdown sequence has ended no loop is left uncancelled
C12_ServerStopsAfterLoops ==
    /\ server = "stopped" => \A t \in Things : task[t] = "stopped"
    /\ pc \in {"done", "aborted"} =>
          \A t \in Things : task[t] \notin {"created", "sleeping"}

\* C13: once the shutdown sequence has completed, running it again raises
\* nothing and changes nothing: every loop is and stays stopped, the server
\* stays stopped, no cancellation is pending
C13_ShutdownIdempotent ==
    [][server = "stopped" =>
          /\ \A t \in Things : task[t] = "stopped" /\ task'[t] = "stopped"
          /\ server' = "stopped"
          /\ cancelReq' = cancelReq
          /\ exc' = "none"
          /\ pc' # "aborted"
          /\ mirror' = mirror
          /\ dev' = dev]_vars

\* the second run has cancelled and joined every loop and is about to stop
\* the server again
C13_Witness ==
    /\ server = "stopped"
    /\ pc = "stop"
    /\ last.op = "join"

\* C14: the temperature properties hold numbers, power holds a boolean and
\* mode one of the six strings of its enumeration
C14_PropertyTypes ==
    /\ \A t \in IndoorUnits :
          /\ mirror[t].room_temperature.ty \in {"int", "float"}
          /\ mirror[t].target_temperature.ty \in {"int", "float"}
          /\ mirror[t].power.ty = "bool"
          /\ mirror[t].thermo_mode \in ModeNames
    /\ \A t \in Condensers : mirror[t].outside_temperature.ty \in {"int", "float"}

C17_TargetReadFailureTolerated ==
    [][\A t \in IndoorUnits :
          (/\ last'.op \in {"poll", "poll_failed"}
           /\ last'.t = t
           /\ last'.reads.tgt_temp = PyNone
           /\ last'.reads.in_temp # ReadError
           /\ last'.reads.fail = "none") =>
              /\ last'.op = "poll"
              /\ task'[t] = task[t]
              /\ mirror'[t].target_temperature = mirror[t].target_temperature
              /\ mirror'[t].thermo_mode =
                    IF last'.reads.power = 0 THEN "off"
                    ELSE IF last'.reads.mode = 2 THEN "dehumid"
                    ELSE IF last'.reads.mode = 3 THEN "cool"
                    ELSE IF last'.reads.mode = 4 THEN "heat"
                    ELSE IF last'.reads.mode = 6 THEN "fan"
                    ELSE "auto"
              /\ mirror'[t].power.n = last'.reads.power
              /\ IsNumeric(last'.reads.in_temp) =>
                    PyEq(mirror'[t].room_temperature, last'.reads.in_temp)]_vars

\* the target read failed in an iteration that followed one which had
\* notified a target temperature: the property still holds that value
C17_Witness ==
    \E t \in IndoorUnits :
        /\ Polled(t)
        /\ last.reads.tgt_temp = PyNone
        /\ mirror[t].target_temperature = PyFloat(21)
        /\ mirror[t].thermo_mode = "cool"

\* C18: an iteration that has started its reads when the shutdown signal
\* arrives is not interrupted: it has made all of its notifications
C18_PollNotInterrupted ==
    \A t \in IndoorUnits :
        (last.op = "poll_interrupted" /\ last.t = t) =>
            /\ mirror[t].power.n = last.reads.power
            /\ (mirror[t].thermo_mode = "off") = (last.reads.power = 0)
            /\ IsNumeric(last.reads.in_temp) =>
                  PyEq(mirror[t].room_temperature, last.reads.in_temp)
            /\ task[t] # "interrupted"

\* the Things whose cancel_update_level_task has returned
Joined(i) ==
    /\ pc \in {"cancel", "join", "stop", "done", "aborted"}
    /\ i < idx

\* C19: a loop whose cancel_update_level_task has returned is stopped and
\* stays so: it runs no further iteration and none of its Values changes
C19_StoppedLoopIsSilent ==
    [][\A i \in 1..Len(Fleet) :
          Joined(i) =>
              /\ task[Fleet[i]] = "stopped"
              /\ task'[Fleet[i]] = "stopped"
              /\ mirror'[Fleet[i]] = mirror[Fleet[i]]
              /\ ~(/\ last'.op \in {"poll", "poll_failed", "poll_interrupted"}
                   /\ last'.t = Fleet[i])]_vars

\* the first loop of the fleet was cancelled in its first sleep and has
\* returned without ever reading its device, while the loop of the next
\* Thing has polled in the meantime
C19_Witness ==
    /\ pc = "cancel"
    /\ idx = 2
    /\ task[Fleet[1]] = "stopped"
    /\ mirror[Fleet[1]] = InitialMirror(Fleet[1])
    /\ mirror[Fleet[2]] # InitialMirror(Fleet[2])

====
